---- MODULE Spec2Model ----
(***************************************************************************)
(* Directory-backed checkpoint sessions (package directory): a manager     *)
(* root directory holds one directory per session; a session directory     *)
(* holds one file per completed step, the file "in-progress" for the       *)
(* current step and the file "metadata".  The actions Call... are one call  *)
(* of the Manager/Session interface each, executed as a whole by a single  *)
(* caller; the actions of the concurrent part are the single file and lock *)
(* operations of calls made by several processes.                          *)
(***************************************************************************)
EXTENDS Integers, Sequences, FiniteSets, TLC

\* ------------------------------------------------------------------ bounds
\* The clock takes the values 1..MaxTime.
MaxTime == 2

\* Session ids the callers pass to Use (besides the empty id).
SessionIDs == {"s1"}

\* The session ids there can be a directory for under the manager root; the
\* callers of the two-session specification pass both.
TwoSessionIDs == {"s1", "s2"}

\* Legal step names the callers pass to Step and Delete (besides "").
StepNames == {"a", "b"}

\* Metadata documents the callers pass to SetMetadata.
Docs == {"d1", "d2"}

\* The processes that call into the same manager root concurrently.
Procs == {"p1", "p2"}

\* The inode numbers of session directories are 1..MaxInode: a new directory
\* gets a number that no process has open.
MaxInode == 2

\* ------------------------------------------------------- program constants
currentStepFile == "in-progress"
metadataFile == "metadata"

\* File permission arguments of ioutil.WriteFile.
PermMarker == "0600"
PermDone == "0400"

\* ------------------------------------------------------------------- state
VARIABLES
    dirs,       \* the session directories that exist under the manager root
    files,      \* files[id][name]: the file name of session directory id
    now,        \* the clock read by time.Now()
    handles,    \* ids for which Use has returned a session handle
    last,       \* the most recent call, its arguments and what it returned
    inprog,     \* history: inprog[id], the step of the last Step that returned (false, nil),
                \*   until a Step with another result, a Use(id, true) or a Delete()
    fin,        \* history: fin[id], the steps superseded by a later Step, not deleted since
    explicit,   \* history: explicit[id], the steps superseded by Step(""), not deleted since
    earlier,    \* history: earlier[id], the value of fin[id] at the last Use(id, true)
    pending,    \* history: pending[id], the in-progress step at the last Use(id, true)
    noDelete,   \* history: noDelete[id], no Delete call was made on session id
    phase,      \* history: phase[id], progress through the re-entry call sequences
    fresh,      \* history: fresh[id], Use(id, true) found no step record and no Step or Delete ran since
    asked,      \* history: asked[id], the names Step was called with since the last Use(id, _)
    wiped,      \* history: wiped[id], "deleted" after Delete(), "recreated" after a Use(id, true)
                \*   that follows it, "no" after a Step or a Delete of named records
    meta,       \* history: meta[id], the document of the last successful SetMetadata since
                \*   session id was last deleted, if any
    procs,      \* procs[p]: the call process p is in, its position and its local variables
    inode,      \* inode[id]: the inode number of the session directory made last
    stale,      \* history: some process was granted the lock of a directory that
                \*   Delete had removed
    keys,       \* the two key sequences given to SessionID
    ids,        \* the session IDs SessionID returned for them
    sh,         \* the shell that runs a script: CHECKPOINT_SESSION_ID, $?, and the
                \*   last command it ran
    mgr         \* the process that uses the package: whether it has its manager, and
                \*   whether it still runs

vars == <<dirs, files, now, handles, last, inprog, fin, explicit, earlier, pending, noDelete,
          phase, fresh, asked, wiped, meta, procs, inode, stale, keys, ids, sh, mgr>>

\* What the calls of the single caller leave alone, and what the operations of
\* the concurrent processes leave alone.
convars == <<procs, inode, stale>>
seqvars == <<now, handles, last, inprog, fin, explicit, earlier, pending, noDelete, phase,
             fresh, asked, wiped, meta>>
\* What no operation on a session touches.
extvars == <<keys, ids, sh, mgr>>

None == "<none>"
Nil == "nil"

FileNames == StepNames \cup {currentStepFile, metadataFile}

NoFile == [exists |-> FALSE]

\* type stepState struct {Step, StepFile, Created, Completed}; an unset
\* Completed (the empty string) is 0.
stepState(step, stepFile, created, completed) ==
    [Step |-> step, StepFile |-> stepFile, Created |-> created, Completed |-> completed]

\* The content of a file that ioutil.WriteFile has truncated and not written
\* yet: the empty input, which is not JSON.
Truncated == [bytes |-> 0]

\* json.Unmarshal(buf, &state) returns no error.
Decodes(buf) == "bytes" \notin DOMAIN buf

\* filepath.Join(ds.session, name): the session directory itself for name "".
Join(id, name) == <<id, name>>

\* os.Stat / ioutil.ReadFile succeed on path p of file system f with directories d.
Exists(d, f, p) ==
    IF p[2] = "" THEN p[1] \in d ELSE p[1] \in d /\ f[p[1]][p[2]].exists

\* ioutil.WriteFile(path, data, perm): an existing file keeps its mode.
WriteFile(f, p, data, perm) ==
    [f EXCEPT ![p[1]][p[2]] =
        [exists |-> TRUE,
         mode |-> IF f[p[1]][p[2]].exists THEN f[p[1]][p[2]].mode ELSE perm,
         data |-> data]]

\* os.Remove(path) of a file; a missing file is tolerated by every caller.
Remove(f, p) == [f EXCEPT ![p[1]][p[2]] = NoFile]

\* os.Rename(from, to) of an existing file.
Rename(f, from, to) ==
    IF from = to THEN f
    ELSE [[f EXCEPT ![to[1]][to[2]] = f[from[1]][from[2]]] EXCEPT ![from[1]][from[2]] = NoFile]

\* lock(name): os.Open fails when the directory does not exist.
lock(d, id) == IF id \in d THEN Nil ELSE "ENOENT"

\* The step named by the in-progress marker of session id, or None.
Current(f, id) ==
    IF f[id][currentStepFile].exists /\ Decodes(f[id][currentStepFile].data)
    THEN f[id][currentStepFile].data.Step ELSE None

\* The steps of session id that have a permanent record.
Completed(f, id) == {n \in StepNames : f[id][n].exists}

\* ------------------------------------------------------------------- Init
NoCall ==
    [op |-> "init", id |-> None, name |-> None, reset |-> FALSE, ok |-> FALSE,
     err |-> Nil, locks |-> {}, cur |-> None, wasFin |-> FALSE,
     wasExplicit |-> FALSE, wasEarlier |-> FALSE, wasPending |-> FALSE,
     wasFresh |-> FALSE, doc |-> None, conflict |-> FALSE, wasAsked |-> FALSE,
     wasWiped |-> FALSE, steps |-> {}, list |-> <<>>, had |-> {}]

\* The inode of the manager root, and the descriptor of a process that has no
\* directory open.
RootInode == 0
NoInode == -1

\* A process that is in no call.
Idle ==
    [pc |-> "idle", op |-> None, id |-> None, step |-> None, names |-> {}, doc |-> None,
     reset |-> FALSE, fd |-> NoInode, held |-> FALSE,
     state |-> stepState(None, Join(None, None), 0, 0), renamed |-> FALSE, handle |-> {},
     todo |-> << >>, list |-> << >>, ret |-> FALSE, clean |-> FALSE, views |-> {}]

\* No session holds a file and no call has been made on one.
NoRecords ==
    /\ files = [id \in TwoSessionIDs |-> [n \in FileNames |-> NoFile]]
    /\ now = 1
    /\ handles = {}
    /\ last = NoCall
    /\ inprog = [id \in TwoSessionIDs |-> None]
    /\ fin = [id \in TwoSessionIDs |-> {}]
    /\ explicit = [id \in TwoSessionIDs |-> {}]
    /\ earlier = [id \in TwoSessionIDs |-> {}]
    /\ pending = [id \in TwoSessionIDs |-> None]
    /\ noDelete = [id \in TwoSessionIDs |-> TRUE]
    /\ phase = [id \in TwoSessionIDs |-> "p0"]
    /\ fresh = [id \in TwoSessionIDs |-> FALSE]
    /\ asked = [id \in TwoSessionIDs |-> {}]
    /\ wiped = [id \in TwoSessionIDs |-> "no"]
    /\ meta = [id \in TwoSessionIDs |-> None]
    /\ stale = FALSE

\* NewManager has returned the manager to the process.
Constructed == [pc |-> "ready", err |-> Nil]

NewManager ==
    /\ NoRecords
    /\ dirs = {}
    /\ procs = [p \in Procs |-> Idle]
    /\ inode = [id \in TwoSessionIDs |-> 0]
    /\ mgr = Constructed

\* The checkpoint command did not call Step.
NotCalled == [called |-> FALSE, ok |-> FALSE, err |-> Nil]

\* A shell that has not sourced the output of "checkpoint use" yet.
NoShell == [id |-> "", status |-> 0, op |-> None, prev |-> 0, prevOp |-> None,
            invoked |-> FALSE, finalized |-> FALSE, step |-> None,
            env |-> "", args |-> << >>, ret |-> NotCalled]

Init ==
    /\ NewManager
    /\ keys = <<<< >>, << >>>>
    /\ ids = << >>
    /\ sh = NoShell

\* --------------------------------------------------------------- handlers
\* markDone without the test that the marker names the step requested now.
markDoneAlways(d, f, id, step, t) ==
    LET current == Join(id, currentStepFile) IN
    IF ~Exists(d, f, current)
    THEN [err |-> Nil, files |-> f]
    ELSE LET state == f[id][currentStepFile].data IN
         IF Exists(d, f, state.StepFile)
         THEN [err |-> "reused", files |-> f]
         ELSE [err |-> Nil,
               files |-> WriteFile(Rename(f, current, state.StepFile), state.StepFile,
                                   [state EXCEPT !.Completed = t], PermDone)]

\* markDone that drops the marker without making the permanent record.
markDoneDrop(d, f, id, step, t) ==
    LET current == Join(id, currentStepFile) IN
    IF ~Exists(d, f, current)
    THEN [err |-> Nil, files |-> f]
    ELSE LET state == f[id][currentStepFile].data IN
         IF state.StepFile = Join(id, step)
         THEN [err |-> Nil, files |-> f]
         ELSE IF Exists(d, f, state.StepFile)
         THEN [err |-> "reused", files |-> f]
         ELSE [err |-> Nil, files |-> Remove(f, current)]

\* markDone that renames the marker over an existing permanent record.
markDoneOverwrite(d, f, id, step, t) ==
    LET current == Join(id, currentStepFile) IN
    IF ~Exists(d, f, current) THEN [err |-> Nil, files |-> f]
    ELSE LET state == f[id][currentStepFile].data IN
         IF state.StepFile = Join(id, step) THEN [err |-> Nil, files |-> f]
         ELSE [err |-> Nil,
               files |-> WriteFile(Rename(f, current, state.StepFile), state.StepFile,
                                   [state EXCEPT !.Completed = t], PermDone)]

\* markDone that reports a missing marker as an error.
markDoneStrict(d, f, id, step, t) ==
    LET current == Join(id, currentStepFile) IN
    IF ~Exists(d, f, current) THEN [err |-> "ENOENT", files |-> f]
    ELSE LET state == f[id][currentStepFile].data IN
         IF state.StepFile = Join(id, step) THEN [err |-> Nil, files |-> f]
         ELSE IF Exists(d, f, state.StepFile) THEN [err |-> "reused", files |-> f]
         ELSE [err |-> Nil,
               files |-> WriteFile(Rename(f, current, state.StepFile), state.StepFile,
                                   [state EXCEPT !.Completed = t], PermDone)]

\* markDone that writes the permanent record and leaves the marker in place.
markDoneCopies(d, f, id, step, t) ==
    LET current == Join(id, currentStepFile) IN
    IF ~Exists(d, f, current)
    THEN [err |-> Nil, files |-> f]
    ELSE LET state == f[id][currentStepFile].data IN
         IF state.StepFile = Join(id, step)
         THEN [err |-> Nil, files |-> f]
         ELSE IF Exists(d, f, state.StepFile)
         THEN [err |-> "reused", files |-> f]
         ELSE [err |-> Nil,
               files |-> WriteFile(f, state.StepFile, [state EXCEPT !.Completed = t], PermDone)]

\* markDone that stamps the permanent record with the Created time of the
\* marker instead of the time of the call.
markDoneBackdates(d, f, id, step, t) ==
    LET current == Join(id, currentStepFile) IN
    IF ~Exists(d, f, current)
    THEN [err |-> Nil, files |-> f]
    ELSE LET state == f[id][currentStepFile].data IN
         IF state.StepFile = Join(id, step)
         THEN [err |-> Nil, files |-> f]
         ELSE IF Exists(d, f, state.StepFile)
         THEN [err |-> "reused", files |-> f]
         ELSE [err |-> Nil,
               files |-> WriteFile(Rename(f, current, state.StepFile), state.StepFile,
                                   [state EXCEPT !.Completed = state.Created], PermDone)]

\* markDone that takes a marker it cannot decode for no marker.
markDoneIgnoresCorrupt(d, f, id, step, t) ==
    LET current == Join(id, currentStepFile) IN
    IF ~Exists(d, f, current) \/ ~Decodes(f[id][currentStepFile].data)
    THEN [err |-> Nil, files |-> f]
    ELSE LET state == f[id][currentStepFile].data IN
         IF state.StepFile = Join(id, step)
         THEN [err |-> Nil, files |-> f]
         ELSE IF Exists(d, f, state.StepFile)
         THEN [err |-> "reused", files |-> f]
         ELSE [err |-> Nil,
               files |-> WriteFile(Rename(f, current, state.StepFile), state.StepFile,
                                   [state EXCEPT !.Completed = t], PermDone)]

\* directorySession.markDone: finalize the in-progress step unless it is the
\* step requested now.  t is the value of time.Now().
markDone(d, f, id, step, t) ==
    LET current == Join(id, currentStepFile) IN
    IF ~Exists(d, f, current)
    THEN [err |-> Nil, files |-> f]
    ELSE IF ~Decodes(f[id][currentStepFile].data)
    THEN [err |-> "failed to unmarshal state", files |-> f]
    ELSE LET state == f[id][currentStepFile].data IN
         IF state.StepFile = Join(id, step)
         THEN [err |-> Nil, files |-> f]
         ELSE IF Exists(d, f, state.StepFile)
         THEN [err |-> "reused", files |-> f]
         ELSE [err |-> Nil,
               files |-> WriteFile(Rename(f, current, state.StepFile), state.StepFile,
                                   [state EXCEPT !.Completed = t], PermDone)]

\* Step that writes the marker without looking for the permanent record.
StepNoLookup(d, f, id, step, t1, t2) ==
    IF lock(d, id) # Nil
    THEN [ok |-> FALSE, err |-> lock(d, id), files |-> f]
    ELSE LET md == markDone(d, f, id, step, t1) IN
         IF md.err # Nil
         THEN [ok |-> FALSE, err |-> md.err, files |-> md.files]
         ELSE IF step = ""
         THEN [ok |-> TRUE, err |-> Nil, files |-> md.files]
         ELSE [ok |-> FALSE, err |-> Nil,
               files |-> WriteFile(md.files, Join(id, currentStepFile),
                                   stepState(step, Join(id, step), t2, 0), PermMarker)]

\* Step that writes the completion time of a record it finds again.
StepRestamps(d, f, id, step, t1, t2) ==
    IF lock(d, id) # Nil
    THEN [ok |-> FALSE, err |-> lock(d, id), files |-> f]
    ELSE LET md == markDone(d, f, id, step, t1) IN
         IF md.err # Nil
         THEN [ok |-> FALSE, err |-> md.err, files |-> md.files]
         ELSE IF step = ""
         THEN [ok |-> TRUE, err |-> Nil, files |-> md.files]
         ELSE IF Exists(d, md.files, Join(id, step))
         THEN [ok |-> TRUE, err |-> Nil,
               files |-> WriteFile(md.files, Join(id, step),
                                   [md.files[id][step].data EXCEPT !.Completed = t2], PermDone)]
         ELSE [ok |-> FALSE, err |-> Nil,
               files |-> WriteFile(md.files, Join(id, currentStepFile),
                                   stepState(step, Join(id, step), t2, 0), PermMarker)]

\* Step that writes the marker of a step that is completed already.
StepAlwaysMarks(d, f, id, step, t1, t2) ==
    IF lock(d, id) # Nil
    THEN [ok |-> FALSE, err |-> lock(d, id), files |-> f]
    ELSE LET md == markDone(d, f, id, step, t1) IN
         IF md.err # Nil
         THEN [ok |-> FALSE, err |-> md.err, files |-> md.files]
         ELSE IF step = ""
         THEN [ok |-> TRUE, err |-> Nil, files |-> md.files]
         ELSE [ok |-> Exists(d, md.files, Join(id, step)), err |-> Nil,
               files |-> WriteFile(md.files, Join(id, currentStepFile),
                                   stepState(step, Join(id, step), t2, 0), PermMarker)]

\* directorySession.Step.  t1 and t2 are the two values of time.Now(), read
\* in markDone and when the new marker is written.
Step(d, f, id, step, t1, t2) ==
    IF lock(d, id) # Nil
    THEN [ok |-> FALSE, err |-> lock(d, id), files |-> f]
    ELSE LET md == markDone(d, f, id, step, t1) IN
         IF md.err # Nil
         THEN [ok |-> FALSE, err |-> md.err, files |-> md.files]
         ELSE IF step = ""
         THEN [ok |-> TRUE, err |-> Nil, files |-> md.files]
         ELSE IF Exists(d, md.files, Join(id, step))
         THEN [ok |-> TRUE, err |-> Nil, files |-> md.files]
         ELSE [ok |-> FALSE, err |-> Nil,
               files |-> WriteFile(md.files, Join(id, currentStepFile),
                                   stepState(step, Join(id, step), t2, 0), PermMarker)]

\* Use that removes the whole session content on reset.
UseResetsAll(d, f, id, reset) ==
    IF id = ""
    THEN [err |-> "empty session id", handle |-> FALSE, locks |-> {}, dirs |-> d, files |-> f]
    ELSE IF reset
    THEN [err |-> Nil, handle |-> TRUE, locks |-> {"root"}, dirs |-> d \cup {id},
          files |-> [f EXCEPT ![id] = [n \in FileNames |-> NoFile]]]
    ELSE [err |-> Nil, handle |-> TRUE, locks |-> {"root"}, dirs |-> d, files |-> f]

\* Use that removes the metadata file together with the marker on reset.
UseResetsMetadata(d, f, id, reset) ==
    IF id = ""
    THEN [err |-> "empty session id", handle |-> FALSE, locks |-> {}, dirs |-> d, files |-> f]
    ELSE IF reset
    THEN [err |-> Nil, handle |-> TRUE, locks |-> {"root"}, dirs |-> d \cup {id},
          files |-> Remove(Remove(f, Join(id, currentStepFile)), Join(id, metadataFile))]
    ELSE [err |-> Nil, handle |-> TRUE, locks |-> {"root"}, dirs |-> d, files |-> f]

\* Use that never removes the marker.
UseKeepsMarker(d, f, id, reset) ==
    IF id = ""
    THEN [err |-> "empty session id", handle |-> FALSE, locks |-> {}, dirs |-> d, files |-> f]
    ELSE IF reset
    THEN [err |-> Nil, handle |-> TRUE, locks |-> {"root"}, dirs |-> d \cup {id}, files |-> f]
    ELSE [err |-> Nil, handle |-> TRUE, locks |-> {"root"}, dirs |-> d, files |-> f]

\* Use that removes the marker whatever reset is.
UseAlwaysResets(d, f, id, reset) ==
    IF id = ""
    THEN [err |-> "empty session id", handle |-> FALSE, locks |-> {}, dirs |-> d, files |-> f]
    ELSE [err |-> Nil, handle |-> TRUE, locks |-> {"root"},
          dirs |-> IF reset THEN d \cup {id} ELSE d,
          files |-> Remove(f, Join(id, currentStepFile))]

\* Use that does not make the session directory.
UseNoMkdir(d, f, id, reset) ==
    IF id = ""
    THEN [err |-> "empty session id", handle |-> FALSE, locks |-> {}, dirs |-> d, files |-> f]
    ELSE IF reset
    THEN [err |-> Nil, handle |-> TRUE, locks |-> {"root"}, dirs |-> d,
          files |-> Remove(f, Join(id, currentStepFile))]
    ELSE [err |-> Nil, handle |-> TRUE, locks |-> {"root"}, dirs |-> d, files |-> f]

\* Use without the test for the empty id: the session path is the root itself,
\* os.Mkdir finds it existing and os.Remove finds no marker in it.
UseNoIdCheck(d, f, id, reset) ==
    IF id = ""
    THEN [err |-> Nil, handle |-> TRUE, locks |-> {"root"}, dirs |-> d, files |-> f]
    ELSE IF reset
    THEN [err |-> Nil, handle |-> TRUE, locks |-> {"root"}, dirs |-> d \cup {id},
          files |-> Remove(f, Join(id, currentStepFile))]
    ELSE [err |-> Nil, handle |-> TRUE, locks |-> {"root"}, dirs |-> d, files |-> f]

\* directoryManager.Use.  The manager root exists (NewManager made it), so the
\* lock on it is always acquired.
Use(d, f, id, reset) ==
    IF id = ""
    THEN [err |-> "empty session id", handle |-> FALSE, locks |-> {}, dirs |-> d, files |-> f]
    ELSE IF reset
    THEN [err |-> Nil, handle |-> TRUE, locks |-> {"root"}, dirs |-> d \cup {id},
          files |-> Remove(f, Join(id, currentStepFile))]
    ELSE [err |-> Nil, handle |-> TRUE, locks |-> {"root"}, dirs |-> d, files |-> f]

\* Delete that removes the directory entry but none of the records.
DeleteKeepsRecords(d, f, id, steps) ==
    IF lock(d, id) # Nil
    THEN [err |-> lock(d, id), dirs |-> d, files |-> f]
    ELSE IF steps = {}
    THEN [err |-> Nil, dirs |-> d \ {id}, files |-> f]
    ELSE [err |-> Nil, dirs |-> d,
          files |-> [f EXCEPT ![id] = [n \in FileNames |->
                                          IF n \in steps THEN NoFile ELSE f[id][n]]]]

\* Delete of named records that takes the marker with them.
DeleteTakesMarker(d, f, id, steps) ==
    IF lock(d, id) # Nil
    THEN [err |-> lock(d, id), dirs |-> d, files |-> f]
    ELSE IF steps = {}
    THEN [err |-> Nil, dirs |-> d \ {id},
          files |-> [f EXCEPT ![id] = [n \in FileNames |-> NoFile]]]
    ELSE [err |-> Nil, dirs |-> d,
          files |-> [f EXCEPT ![id] = [n \in FileNames |->
                                          IF n \in steps \cup {currentStepFile}
                                          THEN NoFile ELSE f[id][n]]]]

\* Delete that removes every session directory under the root.
DeleteRemovesRoot(d, f, id, steps) ==
    IF lock(d, id) # Nil
    THEN [err |-> lock(d, id), dirs |-> d, files |-> f]
    ELSE IF steps = {}
    THEN [err |-> Nil, dirs |-> {},
          files |-> [s \in DOMAIN f |-> [n \in FileNames |-> NoFile]]]
    ELSE [err |-> Nil, dirs |-> d,
          files |-> [f EXCEPT ![id] = [n \in FileNames |->
                                          IF n \in steps THEN NoFile ELSE f[id][n]]]]

\* directorySession.Delete; steps is the set of the step names passed.
Delete(d, f, id, steps) ==
    IF lock(d, id) # Nil
    THEN [err |-> lock(d, id), dirs |-> d, files |-> f]
    ELSE IF steps = {}
    THEN [err |-> Nil, dirs |-> d \ {id},
          files |-> [f EXCEPT ![id] = [n \in FileNames |-> NoFile]]]
    ELSE [err |-> Nil, dirs |-> d,
          files |-> [f EXCEPT ![id] = [n \in FileNames |->
                                          IF n \in steps THEN NoFile ELSE f[id][n]]]]

\* The files filepath.Walk hands to the callback of Steps that it does not
\* skip: every file of the session directory but "metadata".
Walked(d, f, id) ==
    IF id \notin d THEN {} ELSE {n \in FileNames \ {metadataFile} : f[id][n].exists}

\* The files whose content the callback of Steps decodes; it returns nil for
\* the others and Walk goes on.
Decoded(d, f, id) == {n \in Walked(d, f, id) : Decodes(f[id][n].data)}

\* The checkpointstate.Step that Steps makes of the record in file n.
StepEntry(f, id, n) ==
    [Name |-> f[id][n].data.Step,
     Created |-> f[id][n].data.Created,
     Completed |-> f[id][n].data.Completed]

\* The orders in which the members of S can be listed.
Orders(S) ==
    {o \in [1..Cardinality(S) -> S] : \A i, j \in 1..Cardinality(S) : i # j => o[i] # o[j]}

\* directorySession.Steps: the lists it can return.  sort.Slice orders the
\* entries by Created and leaves the order of entries with equal Created
\* open; Steps takes no lock and returns an empty list for a missing directory.
Steps(d, f, id) ==
    {[i \in 1..Cardinality(Decoded(d, f, id)) |-> StepEntry(f, id, o[i])] :
        o \in {o \in Orders(Decoded(d, f, id)) :
                  \A i, j \in DOMAIN o :
                      i < j => f[id][o[j]].data.Created >= f[id][o[i]].data.Created}}

\* json.Marshal / json.Unmarshal of a metadata document.
jsonMarshal(doc) == [doc |-> doc]
jsonUnmarshal(buf) == IF "doc" \in DOMAIN buf THEN buf.doc ELSE "{Step,StepFile,Created,Completed}"

\* SetMetadata that also rewrites the marker.
SetMetadataTouchesMarker(d, f, id, doc) ==
    IF lock(d, id) # Nil
    THEN [err |-> lock(d, id), files |-> f]
    ELSE [err |-> Nil,
          files |-> Remove(WriteFile(f, Join(id, metadataFile), jsonMarshal(doc), PermMarker),
                           Join(id, currentStepFile))]

\* directorySession.SetMetadata
SetMetadata(d, f, id, doc) ==
    IF lock(d, id) # Nil
    THEN [err |-> lock(d, id), files |-> f]
    ELSE [err |-> Nil,
          files |-> WriteFile(f, Join(id, metadataFile), jsonMarshal(doc), PermMarker)]

\* directorySession.Metadata: (nil, nil) when no metadata file exists.
Metadata(d, f, id) ==
    IF lock(d, id) # Nil
    THEN [err |-> lock(d, id), doc |-> None]
    ELSE IF ~Exists(d, f, Join(id, metadataFile))
    THEN [err |-> Nil, doc |-> None]
    ELSE [err |-> Nil, doc |-> jsonUnmarshal(f[id][metadataFile].data)]

\* The marker of session id exists, names another step than name, and the
\* permanent record it is to become exists already.
Conflict(d, f, id, name) ==
    /\ Exists(d, f, Join(id, currentStepFile))
    /\ Decodes(f[id][currentStepFile].data)
    /\ f[id][currentStepFile].data.StepFile # Join(id, name)
    /\ Exists(d, f, f[id][currentStepFile].data.StepFile)

\* ------------------------------------------------------------ call records
\* The record of a call on session id: what was passed, what came back, and
\* what the history says about the step name at the time of the call.
Call(op, id, name, reset, ok, err, locks, doc) ==
    [op |-> op, id |-> id, name |-> name, reset |-> reset, ok |-> ok, err |-> err,
     locks |-> locks, doc |-> doc,
     cur |-> IF id \in TwoSessionIDs THEN inprog[id] ELSE None,
     wasFin |-> id \in TwoSessionIDs /\ name \in fin[id],
     wasExplicit |-> id \in TwoSessionIDs /\ name \in explicit[id],
     wasEarlier |-> id \in TwoSessionIDs /\ name \in earlier[id],
     wasPending |-> id \in TwoSessionIDs /\ name # None /\ name = pending[id],
     wasFresh |-> id \in TwoSessionIDs /\ fresh[id],
     wasAsked |-> id \in TwoSessionIDs /\ name \in asked[id],
     wasWiped |-> id \in TwoSessionIDs /\ wiped[id] = "recreated",
     conflict |-> id \in TwoSessionIDs /\ name # None /\ Conflict(dirs, files, id, name),
     steps |-> {}, list |-> <<>>,
     had |-> IF id \in TwoSessionIDs THEN {n \in FileNames : Exists(dirs, files, Join(id, n))}
             ELSE {}]

\* Progress of session id through the call sequences
\*   Use(id,true) Step(a)=false Use(id,true) Step(a) Step(b)             (o3..o5)
\*   Use(id,true) Step(a)=false Step(b)=false Use(id,true) Step(a) Step(b) (m3..m6)
\* after call c; any other call starts over.
PhaseNext(p, c) ==
    IF c.op = "Use" /\ c.reset /\ c.err = Nil
    THEN (IF p = "p2" THEN "o3" ELSE IF p = "m3" THEN "m4" ELSE "p1")
    ELSE IF c.op = "Step" /\ c.err = Nil
    THEN (IF p = "p1" /\ c.name = "a" /\ ~c.ok THEN "p2"
          ELSE IF p = "p2" /\ c.name = "b" /\ ~c.ok THEN "m3"
          ELSE IF p = "o3" /\ c.name = "a" THEN "o4"
          ELSE IF p = "o4" /\ c.name = "b" THEN "o5"
          ELSE IF p = "m4" /\ c.name = "a" THEN "m5"
          ELSE IF p = "m5" /\ c.name = "b" THEN "m6"
          ELSE "p0")
    ELSE "p0"

\* ---------------------------------------------------------------- actions
\* mgr.Use(ctx, id, reset)
CallUse(id, reset) ==
    LET r == Use(dirs, files, id, reset)
        c == Call("Use", id, None, reset, r.err = Nil, r.err, r.locks, None)
    IN /\ dirs' = r.dirs
       /\ files' = r.files
       /\ handles' = IF r.handle THEN handles \cup {id} ELSE handles
       /\ last' = c
       /\ IF id \in TwoSessionIDs
          THEN /\ phase' = [phase EXCEPT ![id] = PhaseNext(@, c)]
               /\ IF reset /\ noDelete[id]
                  THEN /\ earlier' = [earlier EXCEPT ![id] = fin[id]]
                       /\ pending' = [pending EXCEPT ![id] = inprog[id]]
                  ELSE UNCHANGED <<earlier, pending>>
               /\ inprog' = [inprog EXCEPT ![id] = IF reset THEN None ELSE @]
               /\ fresh' = [fresh EXCEPT ![id] =
                               IF reset THEN Completed(files, id) = {} ELSE @]
               /\ asked' = [asked EXCEPT ![id] = {}]
               /\ wiped' = [wiped EXCEPT ![id] =
                               IF reset THEN (IF @ = "no" THEN "no" ELSE "recreated") ELSE @]
          ELSE UNCHANGED <<phase, earlier, pending, fresh, inprog, asked, wiped>>
       /\ UNCHANGED <<now, fin, explicit, noDelete>>
       /\ UNCHANGED <<meta>>
       /\ UNCHANGED <<convars, extvars>>

\* sess.Step(ctx, step) on a handle returned by Use; the clock may advance
\* between the two readings of time.Now().
CallStep(id, step, t2) ==
    LET r == Step(dirs, files, id, step, now, t2)
        c == Call("Step", id, step, FALSE, r.ok, r.err, {id} \cap dirs, None)
        cur == inprog[id]
        superseded == IF cur \notin {None, step} THEN {cur} ELSE {}
    IN /\ id \in handles
       /\ t2 <= MaxTime
       /\ files' = r.files
       /\ now' = t2
       /\ last' = c
       /\ inprog' = [inprog EXCEPT ![id] =
                        IF r.err # Nil THEN @ ELSE IF r.ok THEN None ELSE step]
       /\ fin' = [fin EXCEPT ![id] = @ \cup superseded]
       /\ explicit' = [explicit EXCEPT ![id] = IF step = "" THEN @ \cup superseded ELSE @]
       /\ phase' = [phase EXCEPT ![id] = PhaseNext(@, c)]
       /\ fresh' = [fresh EXCEPT ![id] = FALSE]
       /\ asked' = [asked EXCEPT ![id] = IF step = "" THEN @ ELSE @ \cup {step}]
       /\ wiped' = [wiped EXCEPT ![id] = IF @ = "recreated" THEN "no" ELSE @]
       /\ UNCHANGED <<dirs, handles, earlier, pending, noDelete>>
       /\ UNCHANGED <<meta>>
       /\ UNCHANGED <<convars, extvars>>

\* sess.Delete(ctx, steps...)
CallDelete(id, steps) ==
    LET r == Delete(dirs, files, id, steps)
        c == [Call("Delete", id, None, FALSE, r.err = Nil, r.err, {id} \cap dirs, None)
                 EXCEPT !.steps = steps]
        gone == IF steps = {} THEN StepNames ELSE steps
    IN /\ id \in handles
       /\ dirs' = r.dirs
       /\ files' = r.files
       /\ last' = c
       /\ inprog' = [inprog EXCEPT ![id] = IF steps = {} /\ r.err = Nil THEN None ELSE @]
       /\ fin' = [fin EXCEPT ![id] = @ \ gone]
       /\ explicit' = [explicit EXCEPT ![id] = @ \ gone]
       /\ earlier' = [earlier EXCEPT ![id] = {}]
       /\ pending' = [pending EXCEPT ![id] = None]
       /\ noDelete' = [noDelete EXCEPT ![id] = FALSE]
       /\ phase' = [phase EXCEPT ![id] = PhaseNext(@, c)]
       /\ fresh' = [fresh EXCEPT ![id] = FALSE]
       /\ wiped' = [wiped EXCEPT ![id] =
                       IF r.err # Nil THEN @ ELSE IF steps = {} THEN "deleted" ELSE "no"]
       /\ meta' = [meta EXCEPT ![id] = IF steps = {} /\ r.err = Nil THEN None ELSE @]
       /\ UNCHANGED <<now, handles, asked>>
       /\ UNCHANGED <<convars, extvars>>

\* sess.SetMetadata(ctx, doc)
CallSetMetadata(id, doc) ==
    LET r == SetMetadata(dirs, files, id, doc)
        c == Call("SetMetadata", id, None, FALSE, r.err = Nil, r.err, {id} \cap dirs, None)
    IN /\ id \in handles
       /\ files' = r.files
       /\ last' = c
       /\ phase' = [phase EXCEPT ![id] = PhaseNext(@, c)]
       /\ meta' = [meta EXCEPT ![id] = IF r.err = Nil THEN doc ELSE @]
       /\ UNCHANGED <<dirs, now, handles, inprog, fin, explicit, earlier, pending, noDelete,
                      fresh, asked, wiped>>
       /\ UNCHANGED <<convars, extvars>>

\* sess.Metadata(ctx)
CallMetadata(id) ==
    LET r == Metadata(dirs, files, id)
        c == Call("Metadata", id, None, FALSE, r.err = Nil, r.err, {id} \cap dirs, r.doc)
    IN /\ id \in handles
       /\ last' = c
       /\ phase' = [phase EXCEPT ![id] = PhaseNext(@, c)]
       /\ UNCHANGED <<dirs, files, now, handles, inprog, fin, explicit, earlier, pending,
                      noDelete, fresh, asked, wiped>>
       /\ UNCHANGED <<meta>>
       /\ UNCHANGED <<convars, extvars>>

\* sess.Steps(ctx)
CallSteps(id) ==
    \E list \in Steps(dirs, files, id) :
       LET c == [Call("Steps", id, None, FALSE, TRUE, Nil, {}, None) EXCEPT !.list = list]
       IN /\ id \in handles
          /\ last' = c
          /\ phase' = [phase EXCEPT ![id] = PhaseNext(@, c)]
          /\ UNCHANGED <<dirs, files, now, handles, inprog, fin, explicit, earlier, pending,
                         noDelete, fresh, asked, wiped>>
          /\ UNCHANGED <<meta>>
          /\ UNCHANGED <<convars, extvars>>

\* Time passes between calls.
Tick ==
    /\ now < MaxTime
    /\ now' = now + 1
    /\ UNCHANGED <<dirs, files, handles, last, inprog, fin, explicit, earlier, pending,
                   noDelete, phase, fresh, asked, wiped>>
    /\ UNCHANGED <<meta>>
    /\ UNCHANGED <<convars, extvars>>

Next ==
    \/ \E id \in SessionIDs \cup {""}, reset \in BOOLEAN : CallUse(id, reset)
    \/ \E id \in SessionIDs, step \in StepNames \cup {""}, t2 \in {now, now + 1} :
          CallStep(id, step, t2)
    \/ \E id \in SessionIDs, steps \in SUBSET StepNames : CallDelete(id, steps)
    \/ \E id \in SessionIDs, doc \in Docs : CallSetMetadata(id, doc)
    \/ \E id \in SessionIDs : CallMetadata(id)
    \/ \E id \in SessionIDs : CallSteps(id)
    \/ Tick

Spec == Init /\ [][Next]_vars

\* The same calls with the reserved file names "in-progress" and "metadata"
\* also given as step names, which Step does not reject.
ReservedNames == {currentStepFile, metadataFile}

NextReserved ==
    \/ \E id \in SessionIDs, reset \in BOOLEAN : CallUse(id, reset)
    \/ \E id \in SessionIDs, step \in ReservedNames \cup {"a", ""} : CallStep(id, step, now)
    \/ \E id \in SessionIDs, steps \in SUBSET StepNames : CallDelete(id, steps)
    \/ \E id \in SessionIDs, doc \in Docs : CallSetMetadata(id, doc)
    \/ \E id \in SessionIDs : CallMetadata(id)

SpecReserved == Init /\ [][NextReserved]_vars

\* ------------------------------------------------------------ two sessions
\* The session ids in the order of sort.Strings.
IDOrder == <<"s1", "s2">>

\* List that does not leave out the root directory itself.
ListWithRoot(d) == [err |-> Nil, list |-> <<"root">> \o SelectSeq(IDOrder, LAMBDA id : id \in d)]

\* directoryManager.List.  Walk visits the root and the directories below it;
\* session ids are names without a path separator and a session directory
\* holds files only, so the directories below the root are the session
\* directories.  The callback returns nil for every entry, so Walk returns nil.
List(d) == [err |-> Nil, list |-> SelectSeq(IDOrder, LAMBDA id : id \in d)]

\* mgr.List(ctx)
CallList ==
    LET r == List(dirs)
        c == [Call("List", "", None, FALSE, r.err = Nil, r.err, {}, None) EXCEPT !.list = r.list]
    IN /\ last' = c
       /\ UNCHANGED <<dirs, files, now, handles, inprog, fin, explicit, earlier, pending,
                      noDelete, phase, fresh, asked, wiped, meta>>
       /\ UNCHANGED <<convars, extvars>>

\* The calls of one caller that works on two sessions, with the clock stopped.
NextSessions ==
    \/ \E id \in TwoSessionIDs, reset \in BOOLEAN : CallUse(id, reset)
    \/ \E id \in TwoSessionIDs, step \in {"a", ""} : CallStep(id, step, now)
    \/ \E id \in TwoSessionIDs, steps \in {{}, {"a"}} : CallDelete(id, steps)
    \/ \E id \in TwoSessionIDs : CallSetMetadata(id, "d1")
    \/ \E id \in TwoSessionIDs : CallSteps(id)
    \/ CallList

SpecSessions == Init /\ [][NextSessions]_vars

\* --------------------------------------------------- concurrent processes
\* Some process holds the flock on the directory with inode number ino.
Locked(ino) == \E q \in Procs : procs[q].held /\ procs[q].fd = ino

\* A return without the deferred unlock.
ReturnKeepsLock(p) ==
    [procs EXCEPT ![p] = [Idle EXCEPT !.handle = procs[p].handle, !.held = procs[p].held,
                                      !.fd = procs[p].fd]]

\* Process p returns from its call: the deferred unlock releases the lock.
Return(p) == [procs EXCEPT ![p] = [Idle EXCEPT !.handle = procs[p].handle]]

\* Some process of P holds the flock on a session directory.
SessionLocked(P) == \E q \in Procs : P[q].held /\ P[q].fd # RootInode

\* What Steps returns of the session as it is, in no order.
View(d, f, id) == {StepEntry(f, id, n) : n \in Walked(d, f, id)}

\* History: the Steps calls under way could have returned v, the records as a
\* call that held the lock has left them.
Commit(P, v) ==
    [q \in Procs |-> IF P[q].op = "Steps" /\ P[q].pc # "idle"
                     THEN [P[q] EXCEPT !.views = @ \cup {v}] ELSE P[q]]

\* The position of Step after markDone has returned nil.
AfterMarkDone(p) == IF procs[p].step = "" THEN "unlock" ELSE "step_lookup"

\* Process p calls mgr.Use(ctx, id, reset).
StartUse(p, id, reset) ==
    /\ procs[p].pc = "idle"
    /\ procs' = [procs EXCEPT ![p].pc = "use_lock", ![p].op = "Use", ![p].id = id,
                              ![p].reset = reset]
    /\ UNCHANGED <<dirs, files, inode, stale>>
    /\ UNCHANGED <<seqvars, extvars>>

\* Use: lock(dm.root) waits until no process holds the lock of the root.
UseLock(p) ==
    /\ procs[p].pc = "use_lock"
    /\ ~Locked(RootInode)
    /\ procs' = [procs EXCEPT ![p].fd = RootInode, ![p].held = TRUE,
                              ![p].pc = IF procs[p].reset THEN "use_mkdir" ELSE "use_unlock"]
    /\ UNCHANGED <<dirs, files, inode, stale>>
    /\ UNCHANGED <<seqvars, extvars>>

\* The inode numbers that no process has open; the file system gives the
\* least of them to a new directory.
FreeInodes == {n \in 1..MaxInode : \A q \in Procs : procs[q].fd # n}

\* Use: os.Mkdir(sessionDir); an existing directory is not an error.
UseMkdir(p) ==
    LET id == procs[p].id IN
    /\ procs[p].pc = "use_mkdir"
    /\ id \in dirs \/ FreeInodes # {}
    /\ dirs' = dirs \cup {id}
    /\ inode' = IF id \in dirs THEN inode
                ELSE [inode EXCEPT ![id] = CHOOSE n \in FreeInodes :
                                              \A m \in FreeInodes : n <= m]
    /\ procs' = [procs EXCEPT ![p].pc = "use_remove"]
    /\ UNCHANGED <<files, stale>>
    /\ UNCHANGED <<seqvars, extvars>>

\* Use: os.Remove of the marker; a missing marker is not an error.
UseRemove(p) ==
    /\ procs[p].pc = "use_remove"
    /\ files' = Remove(files, Join(procs[p].id, currentStepFile))
    /\ procs' = [procs EXCEPT ![p].pc = "use_unlock"]
    /\ UNCHANGED <<dirs, inode, stale>>
    /\ UNCHANGED <<seqvars, extvars>>

\* Use returns the session handle and releases the lock of the root.
UseUnlock(p) ==
    /\ procs[p].pc = "use_unlock"
    /\ procs' = [procs EXCEPT ![p] = [Idle EXCEPT !.handle = procs[p].handle \cup {procs[p].id}]]
    /\ UNCHANGED <<dirs, files, inode, stale>>
    /\ UNCHANGED <<seqvars, extvars>>

\* Process p calls sess.Step(ctx, step) on a handle it has.
StartStep(p, id, step) ==
    /\ procs[p].pc = "idle"
    /\ id \in procs[p].handle
    /\ procs' = [procs EXCEPT ![p].pc = "lock_open", ![p].op = "Step", ![p].id = id,
                              ![p].step = step]
    /\ UNCHANGED <<dirs, files, inode, stale>>
    /\ UNCHANGED <<seqvars, extvars>>

\* Process p calls sess.Delete(ctx, names...).
StartDelete(p, id, names) ==
    /\ procs[p].pc = "idle"
    /\ id \in procs[p].handle
    /\ procs' = [procs EXCEPT ![p].pc = "lock_open", ![p].op = "Delete", ![p].id = id,
                              ![p].names = names]
    /\ UNCHANGED <<dirs, files, inode, stale>>
    /\ UNCHANGED <<seqvars, extvars>>

\* Process p calls sess.SetMetadata(ctx, doc).
StartSetMetadata(p, id, doc) ==
    /\ procs[p].pc = "idle"
    /\ id \in procs[p].handle
    /\ procs' = [procs EXCEPT ![p].pc = "lock_open", ![p].op = "SetMetadata", ![p].id = id,
                              ![p].doc = doc]
    /\ UNCHANGED <<dirs, files, inode, stale>>
    /\ UNCHANGED <<seqvars, extvars>>

\* Process p calls sess.Metadata(ctx).
StartMetadata(p, id) ==
    /\ procs[p].pc = "idle"
    /\ id \in procs[p].handle
    /\ procs' = [procs EXCEPT ![p].pc = "lock_open", ![p].op = "Metadata", ![p].id = id]
    /\ UNCHANGED <<dirs, files, inode, stale>>
    /\ UNCHANGED <<seqvars, extvars>>

\* lock(ds.session): os.Open of the session directory; the call returns the
\* error when there is no such directory.
LockOpen(p) ==
    LET id == procs[p].id IN
    /\ procs[p].pc = "lock_open"
    /\ procs' = IF id \in dirs
                THEN [procs EXCEPT ![p].fd = inode[id], ![p].pc = "lock_flock"]
                ELSE Return(p)
    /\ UNCHANGED <<dirs, files, inode, stale>>
    /\ UNCHANGED <<seqvars, extvars>>

\* lock that grants the flock whoever holds it.
LockFlockNoWait(p) ==
    LET id == procs[p].id IN
    /\ procs[p].pc = "lock_flock"
    /\ procs' = [procs EXCEPT ![p].held = TRUE,
                              ![p].pc = CASE procs[p].op = "Step" -> "step_read"
                                          [] procs[p].op = "Delete" -> "delete_remove"
                                          [] procs[p].op = "SetMetadata" -> "metadata_write"
                                          [] OTHER -> "metadata_read"]
    /\ stale' = (stale \/ id \notin dirs \/ inode[id] # procs[p].fd)
    /\ UNCHANGED <<dirs, files, inode>>
    /\ UNCHANGED <<seqvars, extvars>>

\* lock(ds.session): unix.Flock(fd, LOCK_EX) waits until no process holds the
\* lock of the directory that p opened, which Delete may have removed since.
LockFlock(p) ==
    LET id == procs[p].id IN
    /\ procs[p].pc = "lock_flock"
    /\ ~Locked(procs[p].fd)
    /\ procs' = [procs EXCEPT ![p].held = TRUE,
                              ![p].pc = CASE procs[p].op = "Step" -> "step_read"
                                          [] procs[p].op = "Delete" -> "delete_remove"
                                          [] procs[p].op = "SetMetadata" -> "metadata_write"
                                          [] OTHER -> "metadata_read"]
    /\ stale' = (stale \/ id \notin dirs \/ inode[id] # procs[p].fd)
    /\ UNCHANGED <<dirs, files, inode>>
    /\ UNCHANGED <<seqvars, extvars>>

\* markDone: ioutil.ReadFile of the marker, json.Unmarshal, and the
\* comparison of its StepFile with the file of the requested step.
StepRead(p) ==
    LET id == procs[p].id
        current == Join(id, currentStepFile)
    IN /\ procs[p].pc = "step_read"
       /\ procs' =
            IF ~Exists(dirs, files, current)
            THEN [procs EXCEPT ![p].pc = AfterMarkDone(p)]
            ELSE IF ~Decodes(files[id][currentStepFile].data)
            THEN [procs EXCEPT ![p].pc = "unlock"]
            ELSE IF files[id][currentStepFile].data.StepFile = Join(id, procs[p].step)
            THEN [procs EXCEPT ![p].pc = AfterMarkDone(p)]
            ELSE [procs EXCEPT ![p].pc = "step_stat",
                               ![p].state = files[id][currentStepFile].data]
       /\ UNCHANGED <<dirs, files, inode, stale>>
       /\ UNCHANGED <<seqvars, extvars>>

\* markDone: os.Stat(state.StepFile), then state.Completed = time.Now().
StepStat(p) ==
    /\ procs[p].pc = "step_stat"
    /\ procs' = IF Exists(dirs, files, procs[p].state.StepFile)
                THEN [procs EXCEPT ![p].pc = "unlock"]
                ELSE [procs EXCEPT ![p].pc = "step_rename", ![p].state.Completed = now]
    /\ UNCHANGED <<dirs, files, inode, stale>>
    /\ UNCHANGED <<seqvars, extvars>>

\* markDone that copies the marker to its permanent place and leaves it.
StepRenameCopies(p) ==
    LET id == procs[p].id
        current == Join(id, currentStepFile)
    IN /\ procs[p].pc = "step_rename"
       /\ IF Exists(dirs, files, current)
          THEN /\ files' = [files EXCEPT ![id][procs[p].state.StepFile[2]] =
                                            files[id][currentStepFile]]
               /\ procs' = [procs EXCEPT ![p].pc = "step_write", ![p].renamed = TRUE]
          ELSE /\ files' = files
               /\ procs' = [procs EXCEPT ![p].pc = "step_write", ![p].renamed = FALSE]
       /\ UNCHANGED <<dirs, inode, stale>>
       /\ UNCHANGED <<seqvars, extvars>>

\* markDone: os.Rename(current, state.StepFile); it fails when the marker is
\* no longer there, and markDone goes on to the write all the same.
StepRename(p) ==
    LET id == procs[p].id
        current == Join(id, currentStepFile)
    IN /\ procs[p].pc = "step_rename"
       /\ IF Exists(dirs, files, current)
          THEN /\ files' = Rename(files, current, procs[p].state.StepFile)
               /\ procs' = [procs EXCEPT ![p].pc = "step_write", ![p].renamed = TRUE]
          ELSE /\ files' = files
               /\ procs' = [procs EXCEPT ![p].pc = "step_write", ![p].renamed = FALSE]
       /\ UNCHANGED <<dirs, inode, stale>>
       /\ UNCHANGED <<seqvars, extvars>>

\* markDone: ioutil.WriteFile(state.StepFile, buf, 0400), its error ignored:
\* nothing is written without the directory or to a file of mode 0400.
\* markDone then returns the error of the rename.
StepWrite(p) ==
    LET id == procs[p].id
        to == procs[p].state.StepFile
    IN /\ procs[p].pc = "step_write"
       /\ files' = IF id \notin dirs THEN files
                   ELSE IF files[id][to[2]].exists /\ files[id][to[2]].mode = PermDone
                   THEN files
                   ELSE WriteFile(files, to, procs[p].state, PermDone)
       /\ procs' = [procs EXCEPT ![p].pc = IF procs[p].renamed THEN AfterMarkDone(p)
                                           ELSE "unlock"]
       /\ UNCHANGED <<dirs, inode, stale>>
       /\ UNCHANGED <<seqvars, extvars>>

\* Step: ioutil.ReadFile(stepFile) tells whether the step is completed.
StepLookup(p) ==
    /\ procs[p].pc = "step_lookup"
    /\ procs' = [procs EXCEPT ![p].pc =
                    IF Exists(dirs, files, Join(procs[p].id, procs[p].step))
                    THEN "unlock" ELSE "step_marker"]
    /\ UNCHANGED <<dirs, files, inode, stale>>
    /\ UNCHANGED <<seqvars, extvars>>

\* Step: ioutil.WriteFile of the marker of the requested step.
StepMarker(p) ==
    LET id == procs[p].id IN
    /\ procs[p].pc = "step_marker"
    /\ files' = IF id \notin dirs THEN files
                ELSE WriteFile(files, Join(id, currentStepFile),
                               stepState(procs[p].step, Join(id, procs[p].step), now, 0),
                               PermMarker)
    /\ procs' = [procs EXCEPT ![p].pc = "unlock"]
    /\ UNCHANGED <<dirs, inode, stale>>
    /\ UNCHANGED <<seqvars, extvars>>

\* Delete: os.RemoveAll of the session directory, or os.Remove of the named
\* records, before the lock is released.
DeleteRemove(p) ==
    LET r == Delete(dirs, files, procs[p].id, procs[p].names) IN
    /\ procs[p].pc = "delete_remove"
    /\ dirs' = r.dirs
    /\ files' = r.files
    /\ procs' = [procs EXCEPT ![p].pc = "unlock"]
    /\ UNCHANGED <<inode, stale>>
    /\ UNCHANGED <<seqvars, extvars>>

\* SetMetadata: ioutil.WriteFile of the metadata file.
MetadataWrite(p) ==
    LET r == SetMetadata(dirs, files, procs[p].id, procs[p].doc) IN
    /\ procs[p].pc = "metadata_write"
    /\ files' = r.files
    /\ procs' = [procs EXCEPT ![p].pc = "unlock"]
    /\ UNCHANGED <<dirs, inode, stale>>
    /\ UNCHANGED <<seqvars, extvars>>

\* Metadata: ioutil.ReadFile of the metadata file.
MetadataRead(p) ==
    /\ procs[p].pc = "metadata_read"
    /\ procs' = [procs EXCEPT ![p].pc = "unlock"]
    /\ UNCHANGED <<dirs, files, inode, stale>>
    /\ UNCHANGED <<seqvars, extvars>>

\* The deferred unlock of Step, Delete, SetMetadata and Metadata.  The session
\* is now as the call leaves it (history, for the Steps calls under way).
Unlock(p) ==
    /\ procs[p].pc = "unlock"
    /\ procs' = IF SessionLocked(Return(p)) THEN Return(p)
                ELSE Commit(Return(p), View(dirs, files, procs[p].id))
    /\ UNCHANGED <<dirs, files, inode, stale>>
    /\ UNCHANGED <<seqvars, extvars>>

NextConcurrent ==
    \E p \in Procs :
       \/ \E id \in SessionIDs, reset \in BOOLEAN : StartUse(p, id, reset)
       \/ UseLock(p)
       \/ UseMkdir(p)
       \/ UseRemove(p)
       \/ UseUnlock(p)
       \/ \E id \in SessionIDs, step \in StepNames \cup {""} : StartStep(p, id, step)
       \/ \E id \in SessionIDs, names \in {{}, {"a"}} : StartDelete(p, id, names)
       \/ \E id \in SessionIDs : StartSetMetadata(p, id, "d1")
       \/ \E id \in SessionIDs : StartMetadata(p, id)
       \/ LockOpen(p)
       \/ LockFlock(p)
       \/ StepRead(p)
       \/ StepStat(p)
       \/ StepRename(p)
       \/ StepWrite(p)
       \/ StepLookup(p)
       \/ StepMarker(p)
       \/ DeleteRemove(p)
       \/ MetadataWrite(p)
       \/ MetadataRead(p)
       \/ Unlock(p)

SpecConcurrent == Init /\ [][NextConcurrent]_vars

\* A step of process p inside a call that waits for nothing.
Proceed(p) ==
    \/ UseMkdir(p)
    \/ UseRemove(p)
    \/ UseUnlock(p)
    \/ LockOpen(p)
    \/ StepRead(p)
    \/ StepStat(p)
    \/ StepRename(p)
    \/ StepWrite(p)
    \/ StepLookup(p)
    \/ StepMarker(p)
    \/ DeleteRemove(p)
    \/ MetadataWrite(p)
    \/ MetadataRead(p)
    \/ Unlock(p)

\* The calls of the concurrent processes with the one step name "a".
NextFair ==
    \E p \in Procs :
       \/ \E id \in SessionIDs, reset \in BOOLEAN : StartUse(p, id, reset)
       \/ \E id \in SessionIDs, step \in {"a", ""} : StartStep(p, id, step)
       \/ \E id \in SessionIDs, names \in {{}, {"a"}} : StartDelete(p, id, names)
       \/ \E id \in SessionIDs : StartSetMetadata(p, id, "d1")
       \/ \E id \in SessionIDs : StartMetadata(p, id)
       \/ UseLock(p)
       \/ LockFlock(p)
       \/ Proceed(p)

\* Fair scheduling: a process inside a call keeps running, and a process
\* that waits in flock gets the lock if it is free again and again.
SpecFair ==
    /\ Init /\ [][NextFair]_vars
    /\ \A p \in Procs : WF_vars(Proceed(p)) /\ SF_vars(UseLock(p)) /\ SF_vars(LockFlock(p))

\* ------------------------------------------------------------- readers
\* The file names of a session directory in the lexical order in which
\* filepath.Walk visits them.
WalkOrder == <<"a", "b", currentStepFile, metadataFile>>

\* Process p calls sess.Steps(ctx) on a handle it has; Steps takes no lock.
\* History: clean, no call holds the lock of a session when Steps is called
\* and when it returns; views, the records as they are at the call and as
\* the calls that hold the lock meanwhile leave them.
StartSteps(p, id) ==
    /\ procs[p].pc = "idle"
    /\ id \in procs[p].handle
    /\ procs' = [procs EXCEPT ![p].pc = "steps_readdir", ![p].op = "Steps", ![p].id = id,
                              ![p].todo = << >>, ![p].list = << >>, ![p].ret = FALSE,
                              ![p].clean = ~SessionLocked(procs),
                              ![p].views = {View(dirs, files, id)}]
    /\ UNCHANGED <<dirs, files, inode, stale>>
    /\ UNCHANGED <<seqvars, extvars>>

\* Steps: filepath.Walk reads the names in the session directory, sorted; for
\* a missing directory the callback gets the error and returns nil.
StepsReaddir(p) ==
    LET id == procs[p].id IN
    /\ procs[p].pc = "steps_readdir"
    /\ procs' = [procs EXCEPT ![p].pc = "steps_visit",
                              ![p].todo = IF id \notin dirs THEN << >>
                                          ELSE SelectSeq(WalkOrder,
                                                         LAMBDA n : files[id][n].exists)]
    /\ UNCHANGED <<dirs, files, inode, stale>>
    /\ UNCHANGED <<seqvars, extvars>>

\* Steps: Walk calls os.Lstat on the next name and the callback, which skips
\* "metadata" and a name that is no longer there, and otherwise appends the
\* step read from the file.
StepsVisit(p) ==
    LET id == procs[p].id
        n == Head(procs[p].todo)
    IN /\ procs[p].pc = "steps_visit"
       /\ procs[p].todo # << >>
       /\ procs' = [procs EXCEPT ![p].todo = Tail(@),
                                 ![p].list = IF \/ n = metadataFile
                                                \/ ~Exists(dirs, files, Join(id, n))
                                                \/ ~Decodes(files[id][n].data)
                                             THEN @ ELSE Append(@, StepEntry(files, id, n))]
       /\ UNCHANGED <<dirs, files, inode, stale>>
       /\ UNCHANGED <<seqvars, extvars>>

\* Steps: sort.Slice by Created, which leaves entries with equal Created in
\* any order, and the return of the list.
StepsReturn(p) ==
    LET l == procs[p].list IN
    /\ procs[p].pc = "steps_visit"
    /\ procs[p].todo = << >>
    /\ \E o \in Orders(DOMAIN l) :
          /\ \A i, j \in DOMAIN o : i < j => l[o[j]].Created >= l[o[i]].Created
          /\ procs' = [procs EXCEPT ![p] =
                          [Idle EXCEPT !.handle = procs[p].handle,
                                       !.list = [i \in DOMAIN l |-> l[o[i]]],
                                       !.ret = TRUE,
                                       !.clean = procs[p].clean /\ ~SessionLocked(procs),
                                       !.views = procs[p].views]]
    /\ UNCHANGED <<dirs, files, inode, stale>>
    /\ UNCHANGED <<seqvars, extvars>>

\* Two processes that have called Use("s1", true) step and read the session.
InitReaders ==
    /\ NoRecords
    /\ dirs = {"s1"}
    /\ procs = [p \in Procs |-> [Idle EXCEPT !.handle = {"s1"}]]
    /\ inode = [id \in TwoSessionIDs |-> IF id = "s1" THEN 1 ELSE 0]
    /\ keys = <<<< >>, << >>>>
    /\ ids = << >>
    /\ sh = NoShell
    /\ mgr = Constructed

NextReaders ==
    \E p \in Procs :
       \/ \E step \in StepNames \cup {""} : StartStep(p, "s1", step)
       \/ StartSteps(p, "s1")
       \/ LockOpen(p)
       \/ LockFlock(p)
       \/ StepRead(p)
       \/ StepStat(p)
       \/ StepRename(p)
       \/ StepWrite(p)
       \/ StepLookup(p)
       \/ StepMarker(p)
       \/ StepsReaddir(p)
       \/ StepsVisit(p)
       \/ StepsReturn(p)
       \/ Unlock(p)

SpecReaders == InitReaders /\ [][NextReaders]_vars

\* ----------------------------------------------------- crashes and failures
\* Process p dies inside a call: the kernel closes its descriptors, which
\* releases its flock, and whatever it has written so far stays.
Crash(p) ==
    /\ procs[p].pc # "idle"
    /\ procs' = [procs EXCEPT ![p] = Idle]
    /\ UNCHANGED <<dirs, files, inode, stale>>
    /\ UNCHANGED <<seqvars, extvars>>

\* markDone: ioutil.WriteFile(state.StepFile, buf, 0400) fails (the disk is
\* full, say) before it has written anything; markDone ignores the error.
StepWriteFails(p) ==
    /\ procs[p].pc = "step_write"
    /\ procs' = [procs EXCEPT ![p].pc = IF procs[p].renamed THEN AfterMarkDone(p)
                                        ELSE "unlock"]
    /\ UNCHANGED <<dirs, files, inode, stale>>
    /\ UNCHANGED <<seqvars, extvars>>

NextCrash ==
    \/ NextConcurrent
    \/ \E p \in Procs : Crash(p)
    \/ \E p \in Procs : StepWriteFails(p)

SpecCrash == Init /\ [][NextCrash]_vars

\* ------------------------------------------------------------------ claims
\* The permanent record of step n in session id is complete: it names n and
\* carries a completion time.
Done(id, n) ==
    /\ Exists(dirs, files, Join(id, n))
    /\ files[id][n].data.Step = n
    /\ files[id][n].data.Completed > 0

\* The step that the call history says is in progress is the step the marker
\* names.
InProgressIsMarker == \A id \in SessionIDs : inprog[id] = Current(files, id)

\* C1: in a run of Use and Step calls on a session with no Delete, after a
\* Use(id, true) a call Step(n) returns (true, nil) for every n that a Step
\* with another name or the empty name superseded before that Use, and
\* returns (false, nil) for the step that was in progress at that Use (and was
\* not superseded since).
C1_RerunSkipsFinalized ==
    (last.op = "Step" /\ noDelete[last.id]) =>
        /\ last.wasEarlier => (last.ok /\ last.err = Nil)
        /\ (last.wasPending /\ ~(last.wasFin /\ ~last.wasEarlier)) =>
               (~last.ok /\ last.err = Nil)

\* A re-run asks again for the step that was in progress at the last
\* Use(id, true), in a session that has steps finalized in an earlier run.
C1_Witness ==
    /\ last.op = "Step" /\ noDelete[last.id]
    /\ last.wasPending /\ ~last.ok
    /\ earlier[last.id] # {}

\* C2 as stated: after Use(id,true), Step(a)=false, Use(id,true) the call
\* Step(a) returns (true, nil) and a following Step(b) returns (false, nil).
C2_AsStated ==
    \A id \in SessionIDs :
        /\ (phase[id] = "o4" /\ last.id = id) => (last.ok /\ last.err = Nil)
        /\ (phase[id] = "o5" /\ last.id = id) => (~last.ok /\ last.err = Nil)

\* C2 amended: after Use(id,true), Step(a)=false, Step(b)=false, Use(id,true)
\* the call Step(a) returns (true, nil) and a following Step(b) returns
\* (false, nil).
C2_ReentryAfterNextStep ==
    \A id \in SessionIDs :
        /\ (phase[id] = "m5" /\ last.id = id) => (last.ok /\ last.err = Nil)
        /\ (phase[id] = "m6" /\ last.id = id) => (~last.ok /\ last.err = Nil)

\* The whole amended sequence has run.
C2_Witness == \E id \in SessionIDs : phase[id] = "m6" /\ last.id = id /\ last.op = "Step"

\* C3: Step(a) returns (true, nil) for a step name a only if a was the
\* in-progress step when an earlier Step with another name or the empty name
\* ran, and was not deleted since; Step(a) while a is in progress returns
\* (false, nil), makes no permanent record of a and leaves a in progress.
C3_TrueOnlyAfterFinalized ==
    (last.op = "Step" /\ last.name # "") =>
        /\ (last.ok /\ last.err = Nil) => last.wasFin
        /\ last.cur = last.name =>
              /\ ~last.ok /\ last.err = Nil
              /\ ~Exists(dirs, files, Join(last.id, last.name))
              /\ Current(files, last.id) = last.name

\* Step(a) was called while a was in progress, in a session that has
\* finalized steps.
C3_Witness ==
    /\ last.op = "Step" /\ last.name # "" /\ last.cur = last.name
    /\ fin[last.id] # {}

\* C4: on a session whose directory exists, Step(name) for a non-empty name
\* returns no error, leaves the step that was in progress (if it is another
\* step) with a complete permanent record, returns true exactly when name has a
\* permanent record, and otherwise returns false with the marker naming name.
C4_StepResult ==
    (last.op = "Step" /\ last.name # "" /\ last.id \in dirs) =>
        /\ last.err = Nil
        /\ last.cur \notin {None, last.name} => Done(last.id, last.cur)
        /\ last.ok <=> Exists(dirs, files, Join(last.id, last.name))
        /\ ~last.ok => /\ Current(files, last.id) = last.name
                       /\ files[last.id][currentStepFile].data.StepFile =
                              Join(last.id, last.name)
                       /\ files[last.id][currentStepFile].data.Completed = 0

\* Step(name) superseded another step and put name in progress.
C4_Witness ==
    /\ last.op = "Step" /\ last.name # "" /\ last.id \in dirs
    /\ last.cur \notin {None, last.name}
    /\ ~last.ok /\ Completed(files, last.id) # {}

\* C5: the first Step(a) with a non-empty name a after a Use(id, true) that
\* found no step record in the session returns (false, nil).
C5_FirstTouch ==
    (last.op = "Step" /\ last.name # "" /\ last.wasFresh) =>
        (~last.ok /\ last.err = Nil)

\* A first Step on a fresh session has run.
C5_Witness == last.op = "Step" /\ last.name # "" /\ last.wasFresh

\* C6: Step("") while step c is in progress returns (true, nil), leaves a
\* complete permanent record of c and no marker; as long as that record is not
\* deleted, a later Step(c) returns (true, nil).
C6_ExplicitCompletion ==
    /\ (last.op = "Step" /\ last.name = "" /\ last.cur # None) =>
           /\ last.ok /\ last.err = Nil
           /\ Done(last.id, last.cur)
           /\ Current(files, last.id) = None
    /\ (last.op = "Step" /\ last.wasExplicit) => (last.ok /\ last.err = Nil)

\* Step(c) was called after c was completed by Step("").
C6_Witness == last.op = "Step" /\ last.wasExplicit /\ last.ok

\* C7: Use(id, true) leaves every file of every session as it was, except
\* the marker of session id, which it removes.
C7_ResetKeepsHistory ==
    [][(last'.op = "Use" /\ last'.reset /\ last'.err = Nil) =>
          \A s \in SessionIDs, n \in FileNames :
              IF s = last'.id /\ n = currentStepFile
              THEN ~files'[s][n].exists
              ELSE files'[s][n] = files[s][n]]_vars

\* Use(id, true) ran on a session with a marker, completed steps and metadata.
C7_Witness ==
    /\ last.op = "Use" /\ last.reset /\ last.cur # None
    /\ Completed(files, last.id) # {}
    /\ files[last.id][metadataFile].exists

\* C8: Use(id, false) changes no file and no directory: the marker, the
\* completed records and the metadata stay as they are.
C8_NoResetChangesNothing ==
    [][(last'.op = "Use" /\ ~last'.reset) => (files' = files /\ dirs' = dirs)]_vars

\* Use(id, false) ran on a session with a step in progress.
C8_Witness ==
    /\ last.op = "Use" /\ ~last.reset /\ last.cur # None
    /\ Current(files, last.id) = last.cur

\* C9 as stated: after a successful Use(id, reset), for either value of reset,
\* the session directory exists, and (no Delete having been called) Step,
\* SetMetadata and Metadata on the handle do not fail for a missing session.
C9_UseEnsuresSession ==
    /\ (last.op = "Use" /\ last.err = Nil) => last.id \in dirs
    /\ (last.op \in {"Step", "SetMetadata", "Metadata"} /\ noDelete[last.id]) =>
           last.err # "ENOENT"

\* C10: Use("") returns an error and no handle, takes no lock and changes no
\* directory and no file.
C10_EmptyIdRejected ==
    [][(last'.op = "Use" /\ last'.id = "") =>
          /\ last'.err # Nil /\ ~last'.ok
          /\ last'.locks = {}
          /\ handles' = handles /\ dirs' = dirs /\ files' = files]_vars

\* Use("") was called when there was a session with a step in progress.
C10_Witness ==
    /\ last.op = "Use" /\ last.id = ""
    /\ \E s \in dirs : Current(files, s) # None

\* C11: when the marker names a step whose permanent record exists already
\* and Step is called with another name, Step returns (false, error) and
\* leaves the marker, that record and every other file as they were.
C11_ConflictRejected ==
    [][(last'.op = "Step" /\ last'.conflict)
         => /\ ~last'.ok
            /\ last'.err # Nil
            /\ files' = files
            /\ dirs' = dirs]_vars

C11_Witness ==
    /\ last.op = "Step"
    /\ last.conflict
    /\ last.name \in StepNames
    /\ last.err = "reused"

\* C12 as stated: a Step call for a name that was already requested since the
\* last Use and has a completed record returns a non-nil error.
C12_AsStated ==
    (last.op = "Step" /\ last.wasAsked /\ last.wasFin) => last.err # Nil

\* C12: a Step call for a name that was already requested since the last Use
\* and has a completed record is not an error: it returns (true, nil).
C12_RerequestIsDone ==
    (last.op = "Step" /\ last.wasAsked /\ last.wasFin) => (last.ok /\ last.err = Nil)

\* Step(a), Step(b), Step(a): the third call finds b in progress.
C12_Witness ==
    /\ last.op = "Step"
    /\ last.name = "a"
    /\ last.wasAsked
    /\ last.wasFin
    /\ last.cur = "b"
    /\ last.ok

\* C18: the list a Steps call returns has one entry for every completed record
\* and one for the in-progress record if there is one, is sorted by creation
\* time ascending, and an entry has a zero Completed time if and only if it is
\* the in-progress step, which is then the last entry.
C18_StepsList ==
    last.op = "Steps" =>
       /\ Len(last.list) = Cardinality(Walked(dirs, files, last.id))
       /\ {last.list[i] : i \in DOMAIN last.list}
             = {StepEntry(files, last.id, n) : n \in Walked(dirs, files, last.id)}
       /\ {last.list[i].Name : i \in DOMAIN last.list}
             = Completed(files, last.id) \cup ({Current(files, last.id)} \ {None})
       /\ \A i, j \in DOMAIN last.list :
             i < j => last.list[i].Created <= last.list[j].Created
       /\ \A i \in DOMAIN last.list :
             last.list[i].Completed = 0 <=> last.list[i].Name = Current(files, last.id)
       /\ \A i \in DOMAIN last.list :
             last.list[i].Completed = 0 => i = Len(last.list)

\* C14: a completed record is immutable: no call changes its name, creation
\* time or completion time, and only a Delete call removes it.
C14_CompletedImmutable ==
    [][\A id \in SessionIDs, n \in StepNames :
          Done(id, n) =>
             \/ /\ Exists(dirs', files', Join(id, n))
                /\ files'[id][n].data = files[id][n].data
             \/ /\ last'.op = "Delete"
                /\ last'.id = id
                /\ last'.steps = {} \/ n \in last'.steps
                /\ ~Exists(dirs', files', Join(id, n))]_vars

\* Step(a) was called again for the completed a and left its record alone.
C14_Witness ==
    /\ last.op = "Step"
    /\ last.name = "a"
    /\ "a" \in last.had
    /\ Done(last.id, "a")
    /\ files[last.id]["a"].data.Completed < now

\* C15: while no Delete is called, a step that has a permanent record keeps
\* it, no marker naming it is made, and every Step call for it returns
\* (true, nil).
C15_CompletedIsTerminal ==
    [][\A id \in SessionIDs, n \in StepNames :
          (noDelete'[id] /\ Exists(dirs, files, Join(id, n))) =>
             /\ Exists(dirs', files', Join(id, n))
             /\ Current(files', id) # n
             /\ (last'.op = "Step" /\ last'.id = id /\ last'.name = n)
                   => (last'.ok /\ last'.err = Nil)]_vars

C15_Witness ==
    /\ last.op = "Step"
    /\ last.name = "b"
    /\ "b" \in last.had
    /\ last.ok
    /\ noDelete[last.id]

\* C16: Delete with no names leaves no session directory, record, marker or
\* metadata, and after a following Use(id, true) the first Step call for any
\* name returns (false, nil).
C16_DeleteAll ==
    /\ (last.op = "Delete" /\ last.steps = {} /\ last.err = Nil) =>
          /\ last.id \notin dirs
          /\ \A n \in FileNames : ~files[last.id][n].exists
    /\ (last.op = "Step" /\ last.wasWiped /\ last.name # "") =>
          (~last.ok /\ last.err = Nil /\ last.had \subseteq {metadataFile})

C16_Witness ==
    /\ last.op = "Step"
    /\ last.wasWiped
    /\ last.name = "a"
    /\ ~last.ok
    /\ Current(files, last.id) = "a"

\* C17: Delete of named steps removes exactly the permanent records of those
\* steps and leaves every other record, the marker and the metadata as they
\* were; a named step without a record is not an error.
C17_DeleteNamed ==
    [][(last'.op = "Delete" /\ last'.steps # {} /\ last'.id \in dirs) =>
          /\ last'.err = Nil
          /\ dirs' = dirs
          /\ \A n \in FileNames :
                files'[last'.id][n] = IF n \in last'.steps THEN NoFile
                                      ELSE files[last'.id][n]]_vars

\* Delete(a, b) removed the record of a, found none for b (in progress), and
\* left the marker and the metadata.
C17_Witness ==
    /\ last.op = "Delete"
    /\ last.steps = {"a", "b"}
    /\ last.err = Nil
    /\ last.had = {"a", currentStepFile, metadataFile}
    /\ Current(files, last.id) = "b"
    /\ Exists(dirs, files, Join(last.id, metadataFile))
    /\ ~Exists(dirs, files, Join(last.id, "a"))

\* The files of session id that hold a step record with no completion time.
InProgress(id) ==
    {n \in FileNames \ {metadataFile} :
        Exists(dirs, files, Join(id, n)) /\ files[id][n].data.Completed = 0}

\* Process p is between the lock acquisition and the release of a Step,
\* Delete, SetMetadata or Metadata call on session id.
InCriticalSection(p, id) ==
    /\ procs[p].held
    /\ procs[p].op \in {"Step", "Delete", "SetMetadata", "Metadata"}
    /\ procs[p].id = id

\* C13 as stated: in every state of every interleaving, the states between
\* the file operations of a call included, at most one step record of a
\* session has no completion time.
C13_AsStated == \A id \in SessionIDs : Cardinality(InProgress(id)) <= 1

\* C13: the same, in the states reached while no call was granted the lock of
\* a session directory that Delete had removed.
C13_OneInProgress == ~stale => \A id \in SessionIDs : Cardinality(InProgress(id)) <= 1

\* A Step has renamed the marker to its permanent place and not yet written
\* the completion time.
C13_Witness ==
    /\ ~stale
    /\ \E p \in Procs :
          /\ procs[p].pc = "step_write"
          /\ procs[p].renamed
          /\ InProgress(procs[p].id) = {procs[p].state.Step}

\* C19 as stated: at most one process is in the critical section of a call on
\* a session, in every interleaving.
C19_AsStated ==
    \A id \in SessionIDs, p, q \in Procs :
       (InCriticalSection(p, id) /\ InCriticalSection(q, id)) => p = q

\* Process p holds the lock of the directory that session id has now.
HoldsCurrent(p, id) == procs[p].held /\ id \in dirs /\ procs[p].fd = inode[id]

\* C19: at most one process is in the critical section of a call on a session
\* under the lock of the directory the session has now; a second process in a
\* critical section holds the lock of a directory that Delete has removed.
C19_MutualExclusion ==
    \A id \in SessionIDs, p, q \in Procs :
       (/\ InCriticalSection(p, id) /\ HoldsCurrent(p, id)
        /\ InCriticalSection(q, id) /\ HoldsCurrent(q, id)) => p = q

\* One process is in the critical section of a Step and the other waits for
\* the lock of the same directory.
C19_Witness ==
    \E p, q \in Procs :
       /\ procs[p].pc = "step_stat"
       /\ InCriticalSection(p, procs[q].id)
       /\ HoldsCurrent(p, procs[q].id)
       /\ procs[q].pc = "lock_flock"
       /\ procs[q].fd = procs[p].fd

\* C20: the removal of the marker by Use(id, true) does not take effect while
\* another process is between the lock acquisition and the release of a Step
\* call on the session.
C20_ResetSerialized ==
    [][\A q \in Procs :
          (procs[q].pc = "use_remove" /\ procs'[q].pc = "use_unlock" /\ files' # files) =>
             ~\E p \in Procs \ {q} :
                 procs[p].op = "Step" /\ InCriticalSection(p, procs[q].id)]_vars

\* C30: on an existing session with no marker, a Step call with any name
\* returns no error and changes no completed record, and Step("") returns
\* (true, nil) and changes no file at all.
C30_MarkDoneNoOp ==
    [][(/\ last'.op = "Step"
        /\ last'.id \in dirs
        /\ currentStepFile \notin last'.had) =>
          /\ last'.err = Nil
          /\ dirs' = dirs
          /\ \A n \in StepNames : files'[last'.id][n] = files[last'.id][n]
          /\ last'.name = "" => (last'.ok /\ files' = files)]_vars

\* Step("") on a session that has a completed record and no marker.
C30_Witness ==
    /\ last.op = "Step"
    /\ last.name = ""
    /\ last.had = {"a"}
    /\ last.ok

\* C26: Step, Steps, Use and Delete of named steps never change the metadata
\* file, and SetMetadata never changes a step record or the marker.
C26_MetadataIndependent ==
    [][\A id \in SessionIDs :
          /\ (\/ last'.op \in {"Step", "Steps", "Use"}
              \/ last'.op = "Delete" /\ last'.steps # {})
                => files'[id][metadataFile] = files[id][metadataFile]
          /\ last'.op = "SetMetadata"
                => \A n \in FileNames \ {metadataFile} : files'[id][n] = files[id][n]]_vars

\* SetMetadata replaced the document of a session that has a completed record
\* and a step in progress.
C26_Witness ==
    /\ last.op = "SetMetadata"
    /\ last.had = {"a", currentStepFile, metadataFile}
    /\ last.err = Nil

\* C25: on every session handle, Metadata returns no error and the document
\* of the most recent successful SetMetadata since the session was created or
\* last deleted, or nil when there was none.
C25_MetadataRoundTrip ==
    last.op = "Metadata" => (last.err = Nil /\ last.doc = meta[last.id])

\* -------------------------------------------------------------- SessionID
\* A key is a string, the sequence of its characters; SessionID takes up to
\* MaxKeys of them.
MaxKeys == 2
Keys == {<< >>, <<"a">>, <<"b">>, <<"c">>, <<"a", "b">>, <<"b", "c">>}
KeySeqs == UNION {[1..n -> Keys] : n \in 0..MaxKeys}

\* crypto/sha256, taken as collision-free: the digest is one block of
\* sha256.Size bytes that stands for the bytes hashed and for nothing else.
sha256(bytes) == [sha256 |-> bytes]

\* encoding/hex: EncodeToString writes two digits for each byte.
hexEncodeToString(dgst) == [hex |-> dgst]

\* The ID of no keys, the digest of no bytes (e3b0c442...).
EmptyID == hexEncodeToString(sha256(<< >>))

RECURSIVE Concat(_)
Concat(ks) == IF ks = << >> THEN << >> ELSE Head(ks) \o Concat(Tail(ks))

\* SessionID that writes the keys themselves to the hash, not their digests.
SessionIDFlat(ks) == hexEncodeToString(sha256(Concat(ks)))

\* directoryManager.SessionID: h.Write(dgst[:]) appends the digest of each key,
\* in order, to the bytes that h.Sum hashes.
SessionID(ks) ==
    hexEncodeToString(sha256([i \in 1..Len(ks) |-> sha256(ks[i])]))

CallSessionID ==
    /\ ids = << >>
    /\ ids' = <<SessionID(keys[1]), SessionID(keys[2])>>
    /\ UNCHANGED <<dirs, files, keys, sh, mgr, seqvars, convars>>

InitIDs ==
    /\ NewManager
    /\ keys \in KeySeqs \X KeySeqs
    /\ ids = << >>
    /\ sh = NoShell

NextIDs == CallSessionID

SpecIDs == InitIDs /\ [][NextIDs]_vars

\* C27: SessionID gives equal IDs to equal key sequences and different IDs to
\* different ones, whether they differ in the keys, in their order or in where
\* the same characters are split into keys; no keys give the fixed empty ID.
C27_SessionIDInjective ==
    ids # << >> =>
        /\ (ids[1] = ids[2]) <=> (keys[1] = keys[2])
        /\ keys[1] = << >> => ids[1] = EmptyID

C27_Witness ==
    /\ ids # << >>
    /\ keys = << << <<"a", "b">>, <<"c">> >>, << <<"a">>, <<"b", "c">> >> >>
    /\ ids[1] # ids[2]

\* The elements of a list, and whether it is in strictly ascending order of
\* sort.Strings.
Range(list) == {list[i] : i \in 1..Len(list)}
Position(id) == CHOOSE i \in 1..Len(IDOrder) : IDOrder[i] = id
Ascending(list) == \A i \in 1..Len(list) - 1 : Position(list[i]) < Position(list[i + 1])

\* C28: List returns without error the ids of exactly the session directories
\* that exist, each once and in ascending order (the empty list when there are
\* none); an id is listed after a successful Use(id, true) and is not listed
\* after a successful Delete().
C28_ListExact ==
    /\ last.op = "List" =>
          /\ last.err = Nil
          /\ Range(last.list) = dirs
          /\ Ascending(last.list)
    /\ (last.op = "Use" /\ last.reset /\ last.err = Nil) => last.id \in Range(List(dirs).list)
    /\ (last.op = "Delete" /\ last.steps = {} /\ last.err = Nil) =>
          last.id \notin Range(List(dirs).list)

C28_Witness == last.op = "List" /\ last.list = <<"s1", "s2">> /\ wiped["s1"] = "recreated"

\* The files as they would be with no session but id.
Only(f, id) == [s \in DOMAIN f |-> IF s = id THEN f[s] ELSE [n \in FileNames |-> NoFile]]

\* C29: a Use, Step, SetMetadata or Delete call on one session changes neither
\* the directory nor any file (record, marker, metadata) of another session,
\* and what Step and Steps return is what they would return if the other
\* sessions did not exist.
C29_NoLeakage ==
    [][
        /\ \A id \in TwoSessionIDs :
             (last'.op \in {"Use", "Step", "SetMetadata", "Delete"} /\ last'.id # id) =>
                 (files'[id] = files[id] /\ ((id \in dirs') <=> (id \in dirs)))
        /\ last'.op = "Step" =>
             (LET r == Step(dirs \cap {last'.id}, Only(files, last'.id), last'.id,
                            last'.name, now, now')
              IN last'.ok = r.ok /\ last'.err = r.err /\ files'[last'.id] = r.files[last'.id])
        /\ last'.op = "Steps" =>
             (last'.list \in Steps(dirs \cap {last'.id}, Only(files, last'.id), last'.id))
    ]_vars

C29_Witness ==
    /\ last.op = "Step" /\ last.id = "s2" /\ last.name = "a" /\ ~last.ok /\ last.err = Nil
    /\ Exists(dirs, files, Join("s1", "a"))
    /\ files["s1"][metadataFile].exists

\* ------------------------------------------------------- the shell script
\* The exit statuses 0..MaxStatus of the commands a script runs.
MaxStatus == 2

\* The shell after the command op that exits with status st.
Ran(op, st, invoked, step) ==
    [sh EXCEPT !.status = st, !.op = op, !.prev = sh.status, !.prevOp = sh.op,
               !.invoked = invoked, !.finalized = FALSE, !.step = step,
               !.env = "", !.args = << >>, !.ret = NotCalled]

\* source <(checkpoint use tags): runCmd "use" calls Use(id, true), Metadata
\* and SetMetadata and prints the export of CHECKPOINT_SESSION_ID and the
\* function completed.
ShellSource(id) ==
    LET u == Use(dirs, files, id, TRUE)
        m == Metadata(u.dirs, u.files, id)
        w == SetMetadata(u.dirs, u.files, id, IF m.doc = None THEN "d1" ELSE m.doc)
        failed == u.err # Nil \/ m.err # Nil \/ w.err # Nil
    IN /\ dirs' = u.dirs
       /\ files' = IF u.err # Nil \/ m.err # Nil THEN u.files ELSE w.files
       /\ sh' = IF failed THEN Ran("source", 0, FALSE, None)
                ELSE [Ran("source", 0, FALSE, None) EXCEPT !.id = id]
       /\ UNCHANGED <<keys, ids, mgr, seqvars, convars>>

\* A command of the script other than completed exits with status st.
ShellCommand(st) ==
    /\ sh.op # None
    /\ sh' = Ran("command", st, FALSE, None)
    /\ UNCHANGED <<dirs, files, keys, ids, mgr, seqvars, convars>>

\* runStep: Use(id, false) with the id of CHECKPOINT_SESSION_ID, then Step.
\* step is what Step returned, NotCalled if it was not called.
runStep(d, f, id, name, t) ==
    LET u == Use(d, f, id, FALSE)
        r == Step(u.dirs, u.files, id, name, t, t)
    IN IF u.err # Nil
       THEN [ok |-> FALSE, err |-> "failed to access session", step |-> NotCalled, files |-> f]
       ELSE IF r.err # Nil
       THEN [ok |-> FALSE, err |-> "failed to execute step",
             step |-> [called |-> TRUE, ok |-> r.ok, err |-> r.err], files |-> r.files]
       ELSE [ok |-> r.ok, err |-> Nil, step |-> [called |-> TRUE, ok |-> r.ok, err |-> r.err], files |-> r.files]

\* main that exits with 1 whenever the step is not done, failed or not.
mainOneOnError(d, f, env, args, t) ==
    IF Len(args) > 1
    THEN [status |-> 2, step |-> NotCalled, files |-> f]
    ELSE LET r == runStep(d, f, env, IF Len(args) = 1 THEN args[1] ELSE "", t)
         IN [status |-> IF r.ok THEN 0 ELSE 1, step |-> r.step, files |-> r.files]

\* main for a step request, args being os.Args[1:] with no verb of runCmd
\* first: the exit status, what Step returned, and the files left.
main(d, f, env, args, t) ==
    IF Len(args) > 1
    THEN [status |-> 2, step |-> NotCalled, files |-> f]
    ELSE LET r == runStep(d, f, env, IF Len(args) = 1 THEN args[1] ELSE "", t)
         IN [status |-> IF r.err # Nil THEN 2 ELSE IF r.ok THEN 0 ELSE 1,
             step |-> r.step, files |-> r.files]

\* The generated function:
\*   function completed() { [[ $? -eq 1 ]] && return 0; checkpoint "$@" }
ShellCompleted(step) ==
    /\ sh.id # ""
    /\ IF sh.status = 1
       THEN /\ sh' = Ran("completed", 0, FALSE, step)
            /\ UNCHANGED <<dirs, files>>
       ELSE LET r == main(dirs, files, sh.id, <<step>>, now)
            IN /\ sh' = [Ran("completed", r.status, TRUE, step) EXCEPT
                             !.finalized = Completed(r.files, sh.id) # Completed(files, sh.id),
                             !.env = sh.id, !.args = <<step>>, !.ret = r.step]
               /\ files' = r.files
               /\ UNCHANGED dirs
    /\ UNCHANGED <<keys, ids, mgr, seqvars, convars>>

\* The command line arguments of a step request: at most MaxArgs step names.
MaxArgs == 2

StepArgs == UNION {[1..n -> StepNames \cup {""}] : n \in 0..MaxArgs}

\* The script runs  checkpoint args  itself, with CHECKPOINT_SESSION_ID set to
\* the session of the shell or not set at all.
ShellCheckpoint(env, args) ==
    LET r == main(dirs, files, env, args, now)
    IN /\ sh.op # None
       /\ env \in {sh.id, ""}
       /\ sh' = [Ran("checkpoint", r.status, TRUE, None) EXCEPT
                    !.finalized = env # "" /\ Completed(r.files, env) # Completed(files, env),
                    !.env = env, !.args = args, !.ret = r.step]
       /\ files' = r.files
       /\ UNCHANGED <<dirs, keys, ids, mgr, seqvars, convars>>

\* checkpoint delete: deleteSession of the session of the environment.
ShellDelete ==
    LET u == Use(dirs, files, sh.id, FALSE)
        r == Delete(u.dirs, u.files, sh.id, {})
    IN /\ sh.id # ""
       /\ dirs' = IF u.err # Nil THEN dirs ELSE r.dirs
       /\ files' = IF u.err # Nil THEN files ELSE r.files
       /\ sh' = Ran("delete", IF u.err # Nil \/ r.err # Nil THEN 2 ELSE 0, FALSE, None)
       /\ UNCHANGED <<keys, ids, mgr, seqvars, convars>>

NextShell ==
    \/ \E id \in SessionIDs : ShellSource(id)
    \/ \E st \in 0..MaxStatus : ShellCommand(st)
    \/ \E step \in StepNames \cup {""} : ShellCompleted(step)
    \/ \E env \in SessionIDs \cup {""}, args \in StepArgs : ShellCheckpoint(env, args)
    \/ ShellDelete

SpecShell == Init /\ [][NextShell]_vars

\* C24: when the command that ran before a call of completed failed, with any
\* exit status but 0, the call does not run the checkpoint command, so that
\* Step is not invoked and the step in progress is not finalized.
C24_FailedStepNotDone ==
    (sh.op = "completed" /\ sh.prevOp = "command" /\ sh.prev # 0) =>
        (~sh.invoked /\ ~sh.finalized)

\* No call is in progress.
Quiescent == \A p \in Procs : procs[p].pc = "idle"

\* C23: whenever no call is in progress, also after a process crashed or a
\* write failed inside Step, every permanent step record carries a completion
\* time.
C23_CrashConsistent ==
    Quiescent =>
        \A id \in dirs, n \in StepNames : files[id][n].exists => files[id][n].data.Completed # 0

\* C21: a Steps call returns the records as they were when it was called or
\* as a Step call that ran meanwhile has left them, never anything in
\* between.  Stated for the Steps calls that neither begin nor end while a
\* Step call holds the lock, whose possible results are all in views.
C21_StepsAtomic ==
    \A p \in Procs :
       (procs[p].ret /\ procs[p].clean) =>
           \E v \in procs[p].views :
              Range(procs[p].list) = v /\ Len(procs[p].list) = Cardinality(v)

\* Process p waits for a lock.
Waiting(p) == procs[p].pc \in {"use_lock", "lock_flock"}

\* C22: a process that is in no call holds no lock, a process that waits for
\* a lock holds none, and under fair scheduling every call returns.
C22_LocksReleased ==
    /\ [](\A p \in Procs : (procs[p].pc = "idle" \/ Waiting(p)) => ~procs[p].held)
    /\ \A p \in Procs : (procs[p].pc # "idle") ~> (procs[p].pc = "idle")

C22_Witness ==
    /\ procs["p1"].op = "Delete" /\ procs["p1"].held /\ "s1" \notin dirs
    /\ procs["p2"].pc = "lock_flock" /\ procs["p2"].fd = procs["p1"].fd

\* C38: after a Step call that returns (true, nil), for the empty name or for
\* a step that is completed already, the session has no in-progress marker.
C38_SkippedNotInProgress ==
    (last.op = "Step" /\ last.ok /\ last.err = Nil) => ~files[last.id][currentStepFile].exists

C38_Witness ==
    /\ last.op = "Step" /\ last.ok /\ last.err = Nil /\ last.name = "a"
    /\ {"a", currentStepFile} \subseteq last.had

\* C37: in a run of serialized calls with legal step names, whenever the
\* in-progress marker exists the permanent record of the step it names does
\* not, and Step never returns the reuse error.
C37_MarkerTargetFree ==
    /\ \A id \in SessionIDs :
          Exists(dirs, files, Join(id, currentStepFile)) =>
              ~Exists(dirs, files, files[id][currentStepFile].data.StepFile)
    /\ last.op = "Step" => last.err # "reused"

C37_Witness ==
    /\ last.op = "Step" /\ last.name = "b" /\ ~last.ok /\ last.err = Nil
    /\ last.had = {currentStepFile} /\ last.cur = "a"
    /\ Exists(dirs, files, Join("s1", currentStepFile)) /\ Exists(dirs, files, Join("s1", "a"))

\* C32: a Step call for the step that is in progress leaves the Created time
\* of the marker as it is, and a Step call that finalizes the step in progress
\* gives its permanent record the Created time of the marker.
C32_CreatedKept ==
    [][\A id \in SessionIDs :
          (/\ last'.op = "Step" /\ last'.id = id /\ last'.err = Nil
           /\ Exists(dirs, files, Join(id, currentStepFile))) =>
              LET state == files[id][currentStepFile].data IN
              IF state.Step = last'.name
              THEN /\ Exists(dirs', files', Join(id, currentStepFile))
                   /\ files'[id][currentStepFile].data.Created = state.Created
              ELSE /\ Exists(dirs', files', state.StepFile)
                   /\ files'[id][state.Step].data.Created = state.Created]_vars

\* C33: with a clock that never goes back, every permanent record of a
\* completed step has Created <= Completed; a Step call that finalizes the
\* step in progress stamps its record with a Completed time read during that
\* call; and that Completed time is no later than the Created time of the
\* marker the same call writes for the step requested next.
C33_TimesOrdered ==
    [][\A id \in SessionIDs :
          /\ \A n \in StepNames :
                (/\ Exists(dirs', files', Join(id, n))
                 /\ files'[id][n].data.Completed > 0) =>
                    files'[id][n].data.Created <= files'[id][n].data.Completed
          /\ (/\ last'.op = "Step" /\ last'.id = id /\ last'.err = Nil
              /\ Exists(dirs, files, Join(id, currentStepFile))
              /\ files[id][currentStepFile].data.Step # last'.name) =>
                 LET c == files[id][currentStepFile].data.Step IN
                 /\ Exists(dirs', files', Join(id, c))
                 /\ now <= files'[id][c].data.Completed
                 /\ files'[id][c].data.Completed <= now'
                 /\ Exists(dirs', files', Join(id, currentStepFile)) =>
                        files'[id][c].data.Completed
                            <= files'[id][currentStepFile].data.Created]_vars

\* Step "a" was requested at time 1 and was finalized at time 2 by the call
\* Step("b"), which left the marker of "b" created at time 2.
C33_Witness ==
    /\ last.op = "Step" /\ last.name = "b" /\ ~last.ok /\ last.err = Nil
    /\ last.cur = "a"
    /\ Done("s1", "a")
    /\ files["s1"]["a"].data.Created = 1
    /\ files["s1"]["a"].data.Completed = 2
    /\ Current(files, "s1") = "b"
    /\ files["s1"][currentStepFile].data.Created = 2

\* C36: the reserved file names are not step names.  A call Step("metadata")
\* returns (true, nil) only if a step of that name was superseded before, not
\* because the metadata document exists; and after Step("in-progress") a Step
\* call with another name does not fail with the reuse error.
C36_ReservedDistinct ==
    last.op = "Step" =>
        /\ (last.name = metadataFile /\ last.ok /\ last.err = Nil) => last.wasFin
        /\ (last.cur = currentStepFile /\ last.name # currentStepFile) => last.err # "reused"

InitProcess ==
    /\ NoRecords
    /\ dirs = {}
    /\ procs = [p \in Procs |-> Idle]
    /\ inode = [id \in TwoSessionIDs |-> 0]
    /\ keys = <<<< >>, << >>>>
    /\ ids = << >>
    /\ sh = NoShell
    /\ mgr = [pc |-> "start", err |-> Nil]

\* What os.MkdirAll(dir, 0777) returns when it cannot make the root directory.
MkdirAllErrors == {"EACCES", "ENOTDIR"}

\* directory.NewManager(dir): log.Fatalf, which ends the process with exit
\* status 1, when os.MkdirAll fails; the manager otherwise.
CallNewManager(err) ==
    /\ mgr.pc = "start"
    /\ mgr' = IF err # Nil THEN [pc |-> "exited", err |-> err] ELSE Constructed
    /\ UNCHANGED <<dirs, files, keys, ids, sh, seqvars, convars>>

\* The process makes its manager and then calls it; a process that was ended
\* calls nothing.
NextProcess ==
    \/ \E err \in MkdirAllErrors \cup {Nil} : CallNewManager(err)
    \/ mgr.pc = "ready" /\ Next
    \/ mgr.pc = "ready" /\ CallList

SpecProcess == InitProcess /\ [][NextProcess]_vars

\* C35: the package never ends the process.  When the root directory cannot
\* be made, the construction of the manager returns the error to its caller,
\* and every failed call on the manager or on a session returns its error.
C35_FailuresReturned ==
    /\ mgr.pc # "exited"
    /\ mgr.err # Nil => mgr.pc = "failed"
    /\ (last.op \in {"Use", "List", "Step", "Steps", "SetMetadata", "Metadata", "Delete"}
        /\ ~last.ok) => (last.err # Nil \/ last.op = "Step")

\* C39: when the rename in markDone has failed, so that Step returns
\* (false, error), the rest of the call makes no permanent record: every step
\* record there is when the call goes on to return was there before.
C39_FailedMarkDoneWritesNothing ==
    [][\A p \in Procs :
          (/\ procs[p].op = "Step" /\ procs[p].pc = "step_write" /\ ~procs[p].renamed
           /\ procs'[p].pc = "unlock") =>
              \A n \in StepNames :
                 Exists(dirs', files', Join(procs[p].id, n)) =>
                     Exists(dirs, files, Join(procs[p].id, n))]_vars

\* ------------------------------------------------------- a corrupt marker
\* A process is killed inside sess.Step(ctx, step) while ioutil.WriteFile
\* writes the marker: the file is there, truncated, and nothing is in it.  The
\* call returns nothing, so the history of the returned calls is as it was.
StepKilled(id, step) ==
    LET r == Step(dirs, files, id, step, now, now) IN
    /\ id \in handles
    /\ r.err = Nil /\ ~r.ok
    /\ files' = WriteFile(r.files, Join(id, currentStepFile), Truncated, PermMarker)
    /\ last' = [NoCall EXCEPT !.op = "killed", !.id = id, !.name = step]
    /\ UNCHANGED <<dirs, now, handles, inprog, fin, explicit, earlier, pending, noDelete,
                   phase, fresh, asked, wiped, meta>>
    /\ UNCHANGED <<convars, extvars>>

NextCorrupt ==
    \/ \E id \in SessionIDs, reset \in BOOLEAN : CallUse(id, reset)
    \/ \E id \in SessionIDs, step \in StepNames \cup {""} : CallStep(id, step, now)
    \/ \E id \in SessionIDs, step \in StepNames : StepKilled(id, step)
    \/ \E id \in SessionIDs : CallSteps(id)
    \/ \E id \in SessionIDs, steps \in {{}, {"a"}} : CallDelete(id, steps)

SpecCorrupt == Init /\ [][NextCorrupt]_vars

\* The marker of session id is there and cannot be decoded.
CorruptMarker(id) ==
    /\ Exists(dirs, files, Join(id, currentStepFile))
    /\ ~Decodes(files[id][currentStepFile].data)

\* C31: a Step call on a session whose marker cannot be decoded returns
\* (false, error) and leaves every file as it is; a Steps call returns, with
\* no error, the records of all the files that can be decoded, the marker
\* too when it is one of them, and leaves out the ones that cannot.
C31_CorruptRecord ==
    [][\A id \in SessionIDs :
          /\ (last'.op = "Step" /\ last'.id = id /\ CorruptMarker(id)) =>
                 (~last'.ok /\ last'.err # Nil /\ files' = files)
          /\ (last'.op = "Steps" /\ last'.id = id /\ id \in dirs) =>
                 LET good == {n \in FileNames \ {metadataFile} :
                                 files[id][n].exists /\ Decodes(files[id][n].data)}
                 IN /\ last'.err = Nil
                    /\ Len(last'.list) = Cardinality(good)
                    /\ Range(last'.list) = {StepEntry(files, id, n) : n \in good}
                    /\ files' = files]_vars

\* Step("b") found a marker it could not decode, in a session that holds the
\* record of step "a".
C31_Witness ==
    /\ last.op = "Step" /\ last.name = "b" /\ ~last.ok
    /\ last.err = "failed to unmarshal state"
    /\ CorruptMarker("s1")
    /\ Done("s1", "a")

====
